---- MODULE Spec2Model ----
(***************************************************************************)
(* A model of corncast's observation/forecast normalisation pipeline       *)
(* (src/corncast/corncast.py).  The functions of the pipeline are pure:    *)
(* the initial state draws one call (the function and its arguments) from  *)
(* bounded sets and one action per function applies it, leaving the        *)
(* returned value or the raised exception in `result`.                     *)
(*                                                                         *)
(* Python strings that the code inspects (wind speeds, the elevation       *)
(* display) are sequences of one-character strings.  A nullable number     *)
(* (JSON null, NaN) is a sequence of length 0 or 1.                        *)
(*                                                                         *)
(* Location objects are the one piece of state that outlives a call: heap  *)
(* holds the Python list objects (a list is named by its index), and       *)
(* locations the Location objects constructed so far, each with the list   *)
(* its _snotels attribute refers to.  A session constructs Locations,      *)
(* calls get_snotels and mutates the list a call returned.                 *)
(***************************************************************************)
EXTENDS Integers, Sequences, FiniteSets, TLC

VARIABLES op, args, pc, result, heap, locations

vars == <<op, args, pc, result, heap, locations>>

(***************************************************************************)
(* Bounds of the model.                                                    *)
(***************************************************************************)
MaxWind == 12
MaxStrLen == 4
MaxSeries == 2
MaxObs == 2
MaxPeriods == 2
MaxCols == 4
MaxGroup == 2
MaxLocations == 2
MaxSnotels == 2

(***************************************************************************)
(* Python values.                                                          *)
(***************************************************************************)
Null == <<>>

Some(v) == <<v>>

IsNull(x) == x = <<>>

Val(x) == x[1]

Raise(exc, msg) == [kind |-> "error", exc |-> exc, msg |-> msg]

Failed(r) == r.kind = "error"

(***************************************************************************)
(* str: `sub in s`, s.split(sep)[0], decimal formatting.                   *)
(***************************************************************************)
MatchAt(s, sub, i) ==
    /\ i + Len(sub) - 1 <= Len(s)
    /\ \A j \in 1..Len(sub) : s[i + j - 1] = sub[j]

Contains(sub, s) == \E i \in 1..(Len(s) + 1) : MatchAt(s, sub, i)

FirstIndex(s, sub) ==
    CHOOSE i \in 1..(Len(s) + 1) :
        /\ MatchAt(s, sub, i)
        /\ \A k \in 1..(i - 1) : ~MatchAt(s, sub, k)

SplitHead(s, sep) ==
    IF Contains(sep, s) THEN SubSeq(s, 1, FirstIndex(s, sep) - 1) ELSE s

Digits == <<"0", "1", "2", "3", "4", "5", "6", "7", "8", "9">>

RECURSIVE DecStr(_)
DecStr(n) ==
    IF n < 10 THEN <<Digits[n + 1]>>
    ELSE DecStr(n \div 10) \o <<Digits[(n % 10) + 1]>>

(***************************************************************************)
(* parse_windspeed                                                         *)
(***************************************************************************)
S_MPH == <<" ", "m", "p", "h">>
KMH == <<"k", "m", "h">>
S_KMH == <<" ", "k", "m", "h">>
KMPH == <<"k", "m", "p", "h">>
S_KMPH == <<" ", "k", "m", "p", "h">>

WindSeries(speed_int, unit) ==
    [kind |-> "ok", windSpeedInt |-> speed_int, windSpeedUnit |-> unit]

(* Mutants of parse_windspeed: the separator split without its leading     *)
(* space; "mph" recognised without its leading space; the kmph branch      *)
(* labelled with its own token.                                            *)
parse_windspeed_nospace(speeds) ==
    IF Contains(S_MPH, speeds)
    THEN WindSeries(SplitHead(speeds, <<"m", "p", "h">>), "mph")
    ELSE IF Contains(KMH, speeds)
    THEN WindSeries(SplitHead(speeds, KMH), "wmoUnit:km_h-1")
    ELSE IF Contains(KMPH, speeds)
    THEN WindSeries(SplitHead(speeds, KMPH), "wmoUnit:km_h-1")
    ELSE Raise("ValueError", "Input does not look like a windspeed!")

parse_windspeed_loose(speeds) ==
    IF Contains(<<"m", "p", "h">>, speeds)
    THEN WindSeries(SplitHead(speeds, S_MPH), "mph")
    ELSE IF Contains(KMH, speeds)
    THEN WindSeries(SplitHead(speeds, S_KMH), "wmoUnit:km_h-1")
    ELSE Raise("ValueError", "Input does not look like a windspeed!")

parse_windspeed_label(speeds) ==
    IF Contains(S_MPH, speeds)
    THEN WindSeries(SplitHead(speeds, S_MPH), "mph")
    ELSE IF Contains(KMH, speeds)
    THEN WindSeries(SplitHead(speeds, S_KMH), "wmoUnit:km_h-1")
    ELSE IF Contains(KMPH, speeds)
    THEN WindSeries(SplitHead(speeds, S_KMPH), "kmph")
    ELSE Raise("ValueError", "Input does not look like a windspeed!")

parse_windspeed(speeds) ==
    IF Contains(S_MPH, speeds)
    THEN WindSeries(SplitHead(speeds, S_MPH), "mph")
    ELSE IF Contains(KMH, speeds)
    THEN WindSeries(SplitHead(speeds, S_KMH), "wmoUnit:km_h-1")
    ELSE IF Contains(KMPH, speeds)
    THEN WindSeries(SplitHead(speeds, S_KMPH), "wmoUnit:km_h-1")
    ELSE Raise("ValueError", "Input does not look like a windspeed!")

(***************************************************************************)
(* parse_elev.  A float number of feet is kept in units of 1/FeetScale;    *)
(* an argument is a scalar or a pd.Series of items.                        *)
(***************************************************************************)
FeetScale == 100000

MetreFactor == 328000

Scalar(x) == [isSeries |-> FALSE, items |-> <<x>>]

Series(xs) == [isSeries |-> TRUE, items |-> xs]

RoundHalfEven(x, scale) ==
    LET q == x \div scale
        r == x % scale
    IN  IF 2 * r > scale \/ (2 * r = scale /\ q % 2 = 1) THEN q + 1 ELSE q

FormatFeet(elev_ft) ==
    DecStr(RoundHalfEven(elev_ft, FeetScale)) \o <<" ", "f", "e", "e", "t">>

ElevConvertFt(ev, uc) ==
    IF uc = "m" \/ uc = "wmoUnit:m"
    THEN [kind |-> "ok", elev_ft |-> MetreFactor * ev,
          elev_str |-> FormatFeet(MetreFactor * ev)]
    ELSE IF uc = "ft" \/ uc = "feet"
    THEN [kind |-> "ok", elev_ft |-> FeetScale * ev,
          elev_str |-> FormatFeet(FeetScale * ev)]
    ELSE Raise("ValueError", "Cannot parse elevation unit code!")

(* Mutant of parse_elev: the length comparison of the two series left out. *)
parse_elev_nolen(elev_value, unit_code) ==
    IF elev_value.isSeries
    THEN IF unit_code.isSeries
         THEN IF Len(elev_value.items) = 0 \/ Len(unit_code.items) = 0
              THEN Raise("IndexError", "single positional indexer is out-of-bounds")
              ELSE ElevConvertFt(elev_value.items[1], unit_code.items[1])
         ELSE Raise("ValueError", "Both inputs must be pd.Series!")
    ELSE IF unit_code.isSeries
    THEN Raise("ValueError", "The truth value of a Series is ambiguous.")
    ELSE ElevConvertFt(elev_value.items[1], unit_code.items[1])

parse_elev(elev_value, unit_code) ==
    IF elev_value.isSeries
    THEN IF unit_code.isSeries
         THEN IF Len(elev_value.items) # Len(unit_code.items)
              THEN Raise("ValueError",
                         "Elevation value and unit series must be of equal length!")
              ELSE IF Len(elev_value.items) = 0
              THEN Raise("IndexError", "single positional indexer is out-of-bounds")
              ELSE ElevConvertFt(elev_value.items[1], unit_code.items[1])
         ELSE Raise("ValueError", "Both inputs must be pd.Series!")
    ELSE IF unit_code.isSeries
    THEN Raise("ValueError", "The truth value of a Series is ambiguous.")
    ELSE ElevConvertFt(elev_value.items[1], unit_code.items[1])

(***************************************************************************)
(* DataFrames.  A table is [columns, rows]: the column names in order and  *)
(* the rows in order, each row a function from column name to cell.        *)
(* Chars spells a column name or a keyword; `"wind" in col` is the         *)
(* substring test on the spellings.                                        *)
(***************************************************************************)
Chars ==
    ("station" :> <<"s", "t", "a", "t", "i", "o", "n">>)
    @@ ("timestamp" :> <<"t", "i", "m", "e", "s", "t", "a", "m", "p">>)
    @@ ("textDescription" :>
        <<"t", "e", "x", "t", "D", "e", "s", "c", "r", "i", "p", "t", "i",
          "o", "n">>)
    @@ ("temperature.unitCode" :>
        <<"t", "e", "m", "p", "e", "r", "a", "t", "u", "r", "e", ".", "u",
          "n", "i", "t", "C", "o", "d", "e">>)
    @@ ("temperature.value" :>
        <<"t", "e", "m", "p", "e", "r", "a", "t", "u", "r", "e", ".", "v",
          "a", "l", "u", "e">>)
    @@ ("temperature.qualityControl" :>
        <<"t", "e", "m", "p", "e", "r", "a", "t", "u", "r", "e", ".", "q",
          "u", "a", "l", "i", "t", "y", "C", "o", "n", "t", "r", "o", "l">>)
    @@ ("dewpoint.unitCode" :>
        <<"d", "e", "w", "p", "o", "i", "n", "t", ".", "u", "n", "i", "t",
          "C", "o", "d", "e">>)
    @@ ("dewpoint.value" :>
        <<"d", "e", "w", "p", "o", "i", "n", "t", ".", "v", "a", "l", "u",
          "e">>)
    @@ ("windChill.value" :>
        <<"w", "i", "n", "d", "C", "h", "i", "l", "l", ".", "v", "a", "l",
          "u", "e">>)
    @@ ("elevation.value" :>
        <<"e", "l", "e", "v", "a", "t", "i", "o", "n", ".", "v", "a", "l",
          "u", "e">>)
    @@ ("precipitationLastHour.value" :>
        <<"p", "r", "e", "c", "i", "p", "i", "t", "a", "t", "i", "o", "n",
          "L", "a", "s", "t", "H", "o", "u", "r", ".", "v", "a", "l", "u",
          "e">>)
    @@ ("maxTemperatureLast24Hours.value" :>
        <<"m", "a", "x", "T", "e", "m", "p", "e", "r", "a", "t", "u", "r",
          "e", "L", "a", "s", "t", "2", "4", "H", "o", "u", "r", "s", ".",
          "v", "a", "l", "u", "e">>)
    @@ ("temperature" :>
        <<"t", "e", "m", "p", "e", "r", "a", "t", "u", "r", "e">>)
    @@ ("dewpoint" :> <<"d", "e", "w", "p", "o", "i", "n", "t">>)
    @@ ("precipitation" :>
        <<"p", "r", "e", "c", "i", "p", "i", "t", "a", "t", "i", "o", "n">>)
    @@ ("wind" :> <<"w", "i", "n", "d">>)
    @@ ("elevation" :> <<"e", "l", "e", "v", "a", "t", "i", "o", "n">>)
    @@ ("qualityControl" :>
        <<"q", "u", "a", "l", "i", "t", "y", "C", "o", "n", "t", "r", "o",
          "l">>)

HasWord(w, col) == Contains(Chars[w], Chars[col])

Range(s) == {s[i] : i \in DOMAIN s}

Project(row, cols) == [c \in Range(cols) |-> row[c]]

KeepWords_noqc(col) ==
    \/ HasWord("temperature", col)
    \/ HasWord("dewpoint", col)
    \/ HasWord("precipitation", col)
    \/ HasWord("wind", col)
    \/ HasWord("elevation", col)

KeepWords(col) ==
    /\ \/ HasWord("temperature", col)
       \/ HasWord("dewpoint", col)
       \/ HasWord("precipitation", col)
       \/ HasWord("wind", col)
       \/ HasWord("elevation", col)
    /\ ~HasWord("qualityControl", col)

KeepTable == [col \in DOMAIN Chars |-> KeepWords(col)]

KeepCol(col) == KeepTable[col]

reduce_obs_again(obs_df) ==
    LET Wanted(col) == col \in {"station", "timestamp"} \/ KeepCol(col)
        keep_cols == <<"station", "timestamp">> \o SelectSeq(obs_df.columns, Wanted)
    IN  IF Range(keep_cols) \subseteq Range(obs_df.columns)
        THEN [kind |-> "ok",
              columns |-> keep_cols,
              rows |-> [i \in DOMAIN obs_df.rows |-> Project(obs_df.rows[i], keep_cols)]]
        ELSE Raise("KeyError", "not in index")

reduce_obs(obs_df) ==
    LET keep_cols == <<"station", "timestamp">> \o SelectSeq(obs_df.columns, KeepCol)
    IN  IF Range(keep_cols) \subseteq Range(obs_df.columns)
        THEN [kind |-> "ok",
              columns |-> keep_cols,
              rows |-> [i \in DOMAIN obs_df.rows |-> Project(obs_df.rows[i], keep_cols)]]
        ELSE Raise("KeyError", "not in index")

dropna(df, col) ==
    LET HasValue(row) == ~IsNull(row[col])
    IN  [df EXCEPT !.rows = SelectSeq(df.rows, HasValue)]

(***************************************************************************)
(* Datetimes.  A timestamp text is [ok, wall, off]: whether it parses, its *)
(* wall-clock minute and its UTC offset in minutes.  A datetime is         *)
(* [wall, off]; the instant it denotes is wall - off.                      *)
(***************************************************************************)
Freq1D == 1440
Freq1H == 60
Freq12H == 720
Freq6H == 360

Instant(dt) == dt.wall - dt.off

to_datetime_naive(ts) == [wall |-> ts.wall, off |-> ts.off]

to_datetime_utc(ts) == [wall |-> ts.wall - ts.off, off |-> 0]

to_datetime(ts) == [wall |-> ts.wall, off |-> ts.off]

tz_convert(dt, utcoffset) == [wall |-> Instant(dt) + utcoffset, off |-> utcoffset]

floor_nearest(dt, freq) ==
    [wall |-> (dt.wall + (freq \div 2)) - ((dt.wall + (freq \div 2)) % freq),
     off |-> dt.off]

floor(dt, freq) == [wall |-> dt.wall - (dt.wall % freq), off |-> dt.off]

(***************************************************************************)
(* make_obs_df                                                             *)
(***************************************************************************)
ObsColumns ==
    <<"textDescription", "station", "timestamp",
      "temperature.unitCode", "temperature.value", "temperature.qualityControl",
      "dewpoint.unitCode", "dewpoint.value">>

CtoF(c) == ((c * 9) \div 5) + 32

Unique(df, col) == {df.rows[i][col] : i \in DOMAIN df.rows}

AllEqual(df, col, v) == \A i \in DOMAIN df.rows : df.rows[i][col] = v

ObsBucketRow(loc, row) ==
    LET timestamp == to_datetime_utc(row["timestamp"])
        datehour == floor(timestamp, Freq1H)
    IN  [c \in {"station", "temperature.unitCode", "temperature.value",
                "dewpoint.unitCode", "dewpoint.value"} |-> row[c]]
        @@ ("timestamp" :> timestamp)
        @@ ("date" :> floor(timestamp, Freq1D))
        @@ ("datehour" :> datehour)
        @@ ("datehour_local" :> tz_convert(datehour, loc.utcoffset))
        @@ ("date_nearest12" :> floor(timestamp, Freq12H))
        @@ ("date_nearest6" :> floor(timestamp, Freq6H))

ObsBuckets(loc, df) ==
    [df EXCEPT !.rows = [i \in DOMAIN df.rows |-> ObsBucketRow(loc, df.rows[i])]]

ObsTempF(df, obs_tcol) ==
    LET convert ==
            /\ obs_tcol = "temperature.value"
            /\ \/ AllEqual(df, "temperature.unitCode", "wmoUnit:degC")
               \/ AllEqual(df, "temperature.unitCode", "C")
    IN  [kind |-> "ok",
         columns |-> df.columns \o <<"date", "datehour", "datehour_local",
                                     "date_nearest12", "date_nearest6", "tempF">>,
         rows |-> [i \in DOMAIN df.rows |->
                    df.rows[i] @@ ("tempF" :>
                        IF convert
                        THEN Some(CtoF(Val(df.rows[i][obs_tcol])))
                        ELSE df.rows[i][obs_tcol])]]

(* Mutants of the single-station assertion: an empty table let through;    *)
(* several stations let through.                                           *)
ObsAssertAtMostOneStation(df, obs_tcol) ==
    IF Cardinality(Unique(df, "station")) <= 1
    THEN ObsTempF(df, obs_tcol)
    ELSE Raise("AssertionError", "")

ObsAssertSomeStation(df, obs_tcol) ==
    IF Cardinality(Unique(df, "station")) >= 1
    THEN ObsTempF(df, obs_tcol)
    ELSE Raise("AssertionError", "")

ObsAssertOneStation_value(df, obs_tcol) ==
    IF Cardinality(Unique(df, "station")) = 1
    THEN ObsTempF(df, obs_tcol)
    ELSE Raise("ValueError", "")

ObsAssertOneStation(df, obs_tcol) ==
    IF Cardinality(Unique(df, "station")) = 1
    THEN ObsTempF(df, obs_tcol)
    ELSE Raise("AssertionError", "")

make_obs_df(loc, obs, obs_tcol) ==
    IF Len(obs) = 0
    THEN Raise("ValueError", "No objects to concatenate")
    ELSE LET obs_df_full == [columns |-> ObsColumns, rows |-> obs]
             reduced == reduce_obs(obs_df_full)
         IN  IF Failed(reduced) THEN reduced
             ELSE IF obs_tcol \notin Range(reduced.columns)
             THEN Raise("KeyError", obs_tcol)
             ELSE LET obs_df_reduced == dropna(reduced, obs_tcol)
                  IN  IF \E i \in DOMAIN obs_df_reduced.rows :
                             ~obs_df_reduced.rows[i]["timestamp"].ok
                      THEN Raise("ValueError", "Unknown datetime string format")
                      ELSE ObsAssertOneStation(ObsBuckets(loc, obs_df_reduced), obs_tcol)

(***************************************************************************)
(* make_forecast_df                                                        *)
(***************************************************************************)
IsDigit(ch) == \E i \in DOMAIN Digits : Digits[i] = ch

DigitValue(ch) == (CHOOSE i \in DOMAIN Digits : Digits[i] = ch) - 1

RECURSIVE ParseNat(_)
ParseNat(s) ==
    IF Len(s) = 0 THEN 0
    ELSE 10 * ParseNat(SubSeq(s, 1, Len(s) - 1)) + DigitValue(s[Len(s)])

IsNumeric(s) == Len(s) > 0 /\ \A i \in DOMAIN s : IsDigit(s[i])

ForecastColumns ==
    <<"startTime", "endTime", "isDaytime", "temperature", "temperatureUnit",
      "windSpeed", "windSpeedInt", "windSpeedUnit", "windDirection", "shortForecast">>

ForecastRow_convert(period, wind, elev_ft) ==
    LET startTime == to_datetime(period.startTime)
    IN  [c \in {"isDaytime", "temperature", "temperatureUnit", "windSpeed",
                "windDirection", "shortForecast"} |-> period[c]]
        @@ ("startTime" :> startTime)
        @@ ("endTime" :> to_datetime(period.endTime))
        @@ ("windSpeedInt" :> ParseNat(wind.windSpeedInt))
        @@ ("windSpeedUnit" :> wind.windSpeedUnit)
        @@ ("tempF" :> IF period.temperatureUnit = "C" /\ ~IsNull(period.temperature)
                       THEN Some(CtoF(Val(period.temperature)))
                       ELSE period.temperature)
        @@ ("date" :> floor(startTime, Freq1D))
        @@ ("date_nearest12" :> floor(startTime, Freq12H))
        @@ ("date_nearest6" :> floor(startTime, Freq6H))
        @@ ("elev_ft" :> elev_ft)

ForecastRow(period, wind, elev_ft) ==
    LET startTime == to_datetime(period.startTime)
    IN  [c \in {"isDaytime", "temperature", "temperatureUnit", "windSpeed",
                "windDirection", "shortForecast"} |-> period[c]]
        @@ ("startTime" :> startTime)
        @@ ("endTime" :> to_datetime(period.endTime))
        @@ ("windSpeedInt" :> ParseNat(wind.windSpeedInt))
        @@ ("windSpeedUnit" :> wind.windSpeedUnit)
        @@ ("tempF" :> period.temperature)
        @@ ("date" :> floor(startTime, Freq1D))
        @@ ("date_nearest12" :> floor(startTime, Freq12H))
        @@ ("date_nearest6" :> floor(startTime, Freq6H))
        @@ ("elev_ft" :> elev_ft)

make_forecast_df(fcst_json) ==
    LET elev == parse_elev(Scalar(fcst_json.elevation.value),
                           Scalar(fcst_json.elevation.unitCode))
        periods == fcst_json.periods
        winds == [i \in DOMAIN periods |-> parse_windspeed(periods[i].windSpeed)]
    IN  IF Failed(elev) THEN elev
        ELSE IF Len(periods) = 0
        THEN Raise("AttributeError", "'DataFrame' object has no attribute 'startTime'")
        ELSE IF \E i \in DOMAIN periods : ~periods[i].startTime.ok \/ ~periods[i].endTime.ok
        THEN Raise("ValueError", "Unknown datetime string format")
        ELSE IF \E i \in DOMAIN winds : Failed(winds[i])
        THEN Raise("ValueError", "Input does not look like a windspeed!")
        ELSE IF \E i \in DOMAIN winds : ~IsNumeric(winds[i].windSpeedInt)
        THEN Raise("ValueError", "Unable to parse string")
        ELSE [kind |-> "ok",
              columns |-> ForecastColumns
                          \o <<"tempF", "date", "date_nearest12", "date_nearest6", "elev_ft">>,
              rows |-> [i \in DOMAIN periods |->
                            ForecastRow(periods[i], winds[i], elev.elev_ft)]]

(***************************************************************************)
(* analyze_obs.  A group is a table; precipitation amounts are kept in     *)
(* thousandths, so that the 0.01 threshold is PrecipZero.                  *)
(***************************************************************************)
Freezing == 32

PrecipZero == 10

NonNull(df, col) == {Val(df.rows[i][col]) : i \in {j \in DOMAIN df.rows : ~IsNull(df.rows[j][col])}}

SeriesMax(df, col) ==
    IF NonNull(df, col) = {} THEN Null
    ELSE Some(CHOOSE m \in NonNull(df, col) : \A v \in NonNull(df, col) : v <= m)

SeriesMin(df, col) ==
    IF NonNull(df, col) = {} THEN Null
    ELSE Some(CHOOSE m \in NonNull(df, col) : \A v \in NonNull(df, col) : m <= v)

RECURSIVE SeriesSumTo(_, _, _)
SeriesSumTo(df, col, n) ==
    IF n = 0 THEN 0
    ELSE SeriesSumTo(df, col, n - 1)
         + (IF IsNull(df.rows[n][col]) THEN 0 ELSE Val(df.rows[n][col]))

SeriesSum(df, col) == SeriesSumTo(df, col, Len(df.rows))

FreezeThaw_touch(tmax, tmin) ==
    /\ ~IsNull(tmax) /\ Val(tmax) >= Freezing
    /\ ~IsNull(tmin) /\ Val(tmin) <= Freezing

FreezeThaw(tmax, tmin) ==
    /\ ~IsNull(tmax) /\ Val(tmax) > Freezing
    /\ ~IsNull(tmin) /\ Val(tmin) < Freezing

MeanInt_round(total, count) == ((2 * total) + count) \div (2 * count)

MeanInt(total, count) == total \div count

analyze_obs(obs_df, tcol) ==
    IF tcol \notin Range(obs_df.columns)
    THEN Raise("KeyError", tcol)
    ELSE LET cols == Range(obs_df.columns)
             cycle == FreezeThaw(SeriesMax(obs_df, tcol), SeriesMin(obs_df, tcol))
             obs_precip == SeriesSum(obs_df, "precipitationLast3Hours.value")
             s1 == ("cycle" :> cycle)
             s2 == IF "precipitationLast3Hours.value" \in cols
                   THEN s1 @@ ("obs_precip" :> obs_precip)
                           @@ ("obs_precip_iszero" :> (obs_precip < PrecipZero))
                   ELSE s1
             s3 == IF "probabilityOfPrecipitation.value" \in cols
                   THEN s2 @@ ("prob_precip" :>
                                   SeriesMax(obs_df, "probabilityOfPrecipitation.value"))
                   ELSE s2
         IN  IF "windSpeedInt" \notin cols
             THEN Raise("KeyError", "windSpeedInt")
             ELSE [kind |-> "ok",
                   summary |-> s3 @@ ("mean_wind" :>
                       MeanInt(SeriesSum(obs_df, "windSpeedInt"), Len(obs_df.rows)))]

(***************************************************************************)
(* Location.get_forecast.  res is the provider's response, a mapping from  *)
(* the keys present to their values.  `type` in the third test is the      *)
(* Python builtin, which is never equal to a string.                       *)
(***************************************************************************)
BuiltinType == "<class 'type'>"

get_forecast_any503(res, full) ==
    IF "status" \in DOMAIN res /\ res["status"] = 503
    THEN Raise("Exception", "Status: 503, NOAA API Error Response")
    ELSE IF "properties" \notin DOMAIN res
    THEN Raise("Exception", "\"properties\" attribute not found")
    ELSE IF /\ "properties" \in DOMAIN res
            /\ "periods" \notin DOMAIN res["properties"]
            /\ BuiltinType # "forecastGridData"
    THEN Raise("Exception", "\"periods\" attribute not found")
    ELSE [kind |-> "ok",
          value |-> IF full THEN res["properties"] ELSE res["properties"]["periods"]]

get_forecast(res, full) ==
    IF "status" \in DOMAIN res /\ res["status"] = 503 /\ "detail" \in DOMAIN res
    THEN Raise("Exception", "Status: 503, NOAA API Error Response")
    ELSE IF "properties" \notin DOMAIN res
    THEN Raise("Exception", "\"properties\" attribute not found")
    ELSE IF /\ "properties" \in DOMAIN res
            /\ "periods" \notin DOMAIN res["properties"]
            /\ BuiltinType # "forecastGridData"
    THEN Raise("Exception", "\"periods\" attribute not found")
    ELSE [kind |-> "ok",
          value |-> IF full THEN res["properties"] ELSE res["properties"]["periods"]]

(***************************************************************************)
(* The calls the model draws.                                              *)
(***************************************************************************)
SeqsUpTo(S, n) == UNION {[1..k -> S] : k \in 0..n}

WindAlphabet == {"1", "0", " ", "m", "p", "h", "k"}

WindTokens == {<<>>, <<"m", "p", "h">>, KMH, KMPH, <<"k", "t">>}

WindInputs ==
    {DecStr(n) \o sep \o tok :
        n \in 0..MaxWind, sep \in {<<>>, <<" ">>}, tok \in WindTokens}
    \cup SeqsUpTo(WindAlphabet, MaxStrLen)

ElevValues == {0, 1000, 2000}

ElevUnits == {"m", "wmoUnit:m", "ft", "feet", "invalid_unit"}

PyArgs(S) == {Scalar(x) : x \in S} \cup {Series(xs) : xs \in SeqsUpTo(S, MaxSeries)}

Stations == {"KTRK", "KBLU"}

ObsTimestamps ==
    {[ok |-> FALSE, wall |-> 0, off |-> 0], [ok |-> TRUE, wall |-> 1133, off |-> -480]}

ObsTemps == {Null, Some(-5), Some(10)}

ObsTempUnits == {"wmoUnit:degC", "C", "wmoUnit:degF"}

ObsRecord(station, timestamp, tvalue, tunit) ==
    ("textDescription" :> "Clear")
    @@ ("station" :> station)
    @@ ("timestamp" :> timestamp)
    @@ ("temperature.unitCode" :> tunit)
    @@ ("temperature.value" :> tvalue)
    @@ ("temperature.qualityControl" :> "V")
    @@ ("dewpoint.unitCode" :> "wmoUnit:degC")
    @@ ("dewpoint.value" :> Some(5))

ObsRecords ==
    {ObsRecord(s, t, v, u) :
        s \in Stations, t \in ObsTimestamps, v \in ObsTemps, u \in ObsTempUnits}

TimeGrid == {0, 59, 60, 359, 360, 700, 719, 720, 1439, 1613}

TimeOffsets == {0, -480, 330}

TimedStamps == {[ok |-> TRUE, wall |-> w, off |-> o] : w \in TimeGrid, o \in TimeOffsets}

TimedBatches ==
    {[i \in DOMAIN q |-> ObsRecord("KTRK", q[i], Some(10), "wmoUnit:degC")] :
        q \in SeqsUpTo(TimedStamps, 2) \ {<<>>}}

Locations == {[name |-> "Carson Pass, CA", tz |-> "America/Los_Angeles", utcoffset |-> -480]}

ForecastStarts == {0, 1020}

ForecastTemps == {Null, Some(30)}

ForecastTempUnits == {"F", "C"}

ForecastWinds ==
    {<<"1", "0", " ", "m", "p", "h">>, <<"5", " ", "k", "m", "h">>,
     <<"1", "0", "k", "m", "h">>, <<"1", "0">>}

LocalTime(wall) == [ok |-> TRUE, wall |-> wall, off |-> -480]

Period(start, temperature, unit, windSpeed) ==
    [startTime |-> LocalTime(start), endTime |-> LocalTime(start + Freq1H),
     isDaytime |-> FALSE, temperature |-> temperature, temperatureUnit |-> unit,
     windSpeed |-> windSpeed, windDirection |-> "N", shortForecast |-> "Clear"]

Periods ==
    {Period(t, v, u, w) :
        t \in ForecastStarts, v \in ForecastTemps, u \in ForecastTempUnits,
        w \in ForecastWinds}

Forecasts ==
    [elevation : [value : {1000}, unitCode : {"m", "ft", "invalid_unit"}],
     periods : SeqsUpTo(Periods, MaxPeriods)]

InjSeqs(S, n) == {q \in SeqsUpTo(S, n) : Cardinality(Range(q)) = Len(q)}

RawColumns ==
    {"station", "timestamp", "temperature.value", "temperature.qualityControl",
     "dewpoint.value", "windChill.value", "elevation.value",
     "precipitationLastHour.value", "maxTemperatureLast24Hours.value"}

RawRowCounts == {0, 2}

RawTable(cols, n) ==
    [columns |-> cols,
     rows |-> [i \in 1..n |-> [c \in Range(cols) |-> <<c, i>>]]]

RawTables ==
    {RawTable(cols, n) : cols \in InjSeqs(RawColumns, MaxCols), n \in RawRowCounts}

GroupCells ==
    ("tempF" :> {Null, Some(20), Some(32), Some(40)})
    @@ ("precipitationLast3Hours.value" :> {Null, Some(5)})
    @@ ("probabilityOfPrecipitation.value" :> {Some(30), Some(60)})
    @@ ("windSpeedInt" :> {Some(3), Some(4)})

OptionalColumns ==
    <<"precipitationLast3Hours.value", "probabilityOfPrecipitation.value", "windSpeedInt">>

GroupColumns ==
    {LET Present(c) == c \in present
     IN  <<"tempF">> \o SelectSeq(OptionalColumns, Present) :
        present \in SUBSET Range(OptionalColumns)}

GroupRows(cols) ==
    {r \in [Range(cols) -> UNION {GroupCells[c] : c \in Range(cols)}] :
        \A c \in Range(cols) : r[c] \in GroupCells[c]}

Groups ==
    UNION {[columns : {cols}, rows : SeqsUpTo(GroupRows(cols), MaxGroup) \ {<<>>}] :
               cols \in GroupColumns}

EmptyDict == [k \in {} |-> k]

Entry(key, present, value) == IF present THEN key :> value ELSE EmptyDict

ResponseProperties ==
    {Entry("elevation", TRUE, [value |-> 1000, unitCode |-> "wmoUnit:m"])
        @@ Entry("periods", hasPeriods, periods) :
        hasPeriods \in BOOLEAN, periods \in SeqsUpTo({"period"}, 1)}

Responses ==
    {Entry("status", hasStatus, status)
        @@ Entry("detail", hasDetail, "Service Unavailable")
        @@ Entry("properties", hasProperties, properties) :
        hasStatus \in BOOLEAN, status \in {200, 503}, hasDetail \in BOOLEAN,
        hasProperties \in BOOLEAN, properties \in ResponseProperties}

NoResult == [kind |-> "none"]

InitGetForecast ==
    /\ op = "get_forecast"
    /\ args \in [res : Responses, full : BOOLEAN]

InitAnalyze ==
    /\ op = "analyze_obs"
    /\ args \in [obs_df : Groups, tcol : {"tempF", "temperature"}]

InitReduce ==
    /\ op = "reduce_obs"
    /\ args \in [obs_df : RawTables]

InitForecast ==
    /\ op = "make_forecast_df"
    /\ args \in [fcst_json : Forecasts]

InitObs ==
    /\ op = "make_obs_df"
    /\ args \in [loc : Locations,
                 obs : SeqsUpTo(ObsRecords, MaxObs) \cup TimedBatches,
                 obs_tcol : {"temperature.value", "dewpoint.value"}]

InitWind ==
    /\ op = "parse_windspeed"
    /\ args \in [speeds : WindInputs]

InitElev ==
    /\ op = "parse_elev"
    /\ args \in [elev_value : PyArgs(ElevValues), unit_code : PyArgs(ElevUnits)]

(* The list object `[]` that `def __init__(..., snotels=[])` evaluates once, *)
(* when the class body runs: it is heap[DefaultSnotels].                   *)
DefaultSnotels == 1

Omitted == [given |-> FALSE, value |-> <<>>]

Given(list) == [given |-> TRUE, value |-> list]

SnotelArguments == {Omitted, Given(<<>>), Given(<<"SNOTEL:1067_CA_SNTL">>)}

SnotelStations == {"SNOTEL:428_CA_SNTL"}

InitSession ==
    /\ op = "Location"
    /\ args = [session |-> TRUE]

Init ==
    /\ result = NoResult
    /\ heap = <<(<<>>)>>
    /\ locations = <<>>
    /\ \/ /\ pc = "call"
          /\ \/ InitWind
             \/ InitElev
             \/ InitObs
             \/ InitForecast
             \/ InitReduce
             \/ InitAnalyze
             \/ InitGetForecast
       \/ /\ pc = "run"
          /\ InitSession

ParseWindspeed ==
    /\ pc = "call"
    /\ op = "parse_windspeed"
    /\ result' = parse_windspeed(args.speeds)
    /\ pc' = "done"
    /\ UNCHANGED <<op, args, heap, locations>>

ParseElev ==
    /\ pc = "call"
    /\ op = "parse_elev"
    /\ result' = parse_elev(args.elev_value, args.unit_code)
    /\ pc' = "done"
    /\ UNCHANGED <<op, args, heap, locations>>

MakeObsDf ==
    /\ pc = "call"
    /\ op = "make_obs_df"
    /\ result' = make_obs_df(args.loc, args.obs, args.obs_tcol)
    /\ pc' = "done"
    /\ UNCHANGED <<op, args, heap, locations>>

MakeForecastDf ==
    /\ pc = "call"
    /\ op = "make_forecast_df"
    /\ result' = make_forecast_df(args.fcst_json)
    /\ pc' = "done"
    /\ UNCHANGED <<op, args, heap, locations>>

ReduceObs ==
    /\ pc = "call"
    /\ op = "reduce_obs"
    /\ result' = reduce_obs(args.obs_df)
    /\ pc' = "done"
    /\ UNCHANGED <<op, args, heap, locations>>

AnalyzeObs ==
    /\ pc = "call"
    /\ op = "analyze_obs"
    /\ result' = analyze_obs(args.obs_df, args.tcol)
    /\ pc' = "done"
    /\ UNCHANGED <<op, args, heap, locations>>

GetForecast ==
    /\ pc = "call"
    /\ op = "get_forecast"
    /\ result' = get_forecast(args.res, args.full)
    /\ pc' = "done"
    /\ UNCHANGED <<op, args, heap, locations>>

(* Location(name, lat, lon[, snotels]): self._snotels = snotels binds the   *)
(* attribute to the argument's list object; an omitted argument is the     *)
(* default's list object, a list literal in the call a new object.         *)
NewLocation ==
    /\ pc = "run"
    /\ Len(locations) < MaxLocations
    /\ \E snotels \in SnotelArguments :
           IF snotels.given
           THEN /\ heap' = Append(heap, snotels.value)
                /\ locations' = Append(locations,
                       [_snotels |-> Len(heap) + 1, given |-> snotels.value,
                        mutated |-> FALSE])
           ELSE /\ heap' = heap
                /\ locations' = Append(locations,
                       [_snotels |-> DefaultSnotels, given |-> <<>>,
                        mutated |-> FALSE])
    /\ UNCHANGED <<op, args, pc, result>>

(* loc.get_snotels() returns the list object itself, not a copy.           *)
GetSnotels ==
    /\ pc = "run"
    /\ \E loc \in DOMAIN locations :
           result' = [kind |-> "ok", loc |-> loc, list |-> locations[loc]._snotels]
    /\ UNCHANGED <<op, args, pc, heap, locations>>

(* The caller appends a station to the list the last get_snotels returned. *)
MutateSnotels ==
    /\ pc = "run"
    /\ result.kind = "ok"
    /\ Len(heap[result.list]) < MaxSnotels
    /\ \E station \in SnotelStations :
           heap' = [heap EXCEPT ![result.list] = Append(@, station)]
    /\ locations' = [locations EXCEPT ![result.loc].mutated = TRUE]
    /\ UNCHANGED <<op, args, pc, result>>

Next ==
    \/ ParseWindspeed
    \/ ParseElev
    \/ MakeObsDf
    \/ MakeForecastDf
    \/ ReduceObs
    \/ AnalyzeObs
    \/ GetForecast
    \/ NewLocation
    \/ GetSnotels
    \/ MutateSnotels

Spec == Init /\ [][Next]_vars

(***************************************************************************)
(* Claims about make_obs_df and make_forecast_df.                          *)
(***************************************************************************)
ObsDone == pc = "done" /\ op = "make_obs_df"

ForecastDone == pc = "done" /\ op = "make_forecast_df"

Returned == ~Failed(result)

CelsiusCodes == {"wmoUnit:degC", "C"}

(* The records of the batch that have a value in the temperature column.   *)
KeptObs == {i \in DOMAIN args.obs : ~IsNull(args.obs[i][args.obs_tcol])}

(* C1: every table make_obs_df returns has at least one row and all of its *)
(* rows carry the same single station value.                               *)
C1_SingleStation ==
    (ObsDone /\ Returned) =>
        /\ Len(result.rows) >= 1
        /\ \A i, j \in DOMAIN result.rows :
                result.rows[i]["station"] = result.rows[j]["station"]

C1_Witness ==
    /\ ObsDone
    /\ Returned
    /\ Len(args.obs) = 2
    /\ args.obs[1]["station"] # args.obs[2]["station"]
    /\ Len(result.rows) = 1

C3_TempFNotNull ==
    ((ObsDone \/ ForecastDone) /\ Returned) =>
        \A i \in DOMAIN result.rows :
            /\ ~IsNull(result.rows[i]["tempF"])
            /\ ObsDone => ~IsNull(result.rows[i][args.obs_tcol])
            /\ ForecastDone => ~IsNull(result.rows[i]["temperature"])

(* C4: with the default temperature column, if every row's unit code is a  *)
(* Celsius code ("wmoUnit:degC" or "C") every row's tempF is               *)
(* value * 9/5 + 32; otherwise every row's tempF is its value unchanged.   *)
C4_BatchUnitChoice ==
    (ObsDone /\ Returned /\ args.obs_tcol = "temperature.value") =>
        IF \A i \in DOMAIN result.rows :
                result.rows[i]["temperature.unitCode"] \in CelsiusCodes
        THEN \A i \in DOMAIN result.rows :
                result.rows[i]["tempF"] = Some(CtoF(Val(result.rows[i]["temperature.value"])))
        ELSE \A i \in DOMAIN result.rows :
                result.rows[i]["tempF"] = result.rows[i]["temperature.value"]

(* C5: in every table built by make_obs_df (for any temperature column) or *)
(* by make_forecast_df, each row's tempF is the Fahrenheit value of the    *)
(* row's source temperature under the row's declared unit: a value         *)
(* declared in Celsius is never copied unconverted.                        *)
Fahrenheit(value, unit) ==
    IF IsNull(value) THEN Null
    ELSE IF unit \in CelsiusCodes THEN Some(CtoF(Val(value)))
    ELSE value

C5_TempFIsFahrenheit ==
    ((ObsDone \/ ForecastDone) /\ Returned) =>
        \A i \in DOMAIN result.rows :
            LET row == result.rows[i]
            IN  result.rows[i]["tempF"] =
                    IF ForecastDone
                    THEN Fahrenheit(row["temperature"], row["temperatureUnit"])
                    ELSE IF args.obs_tcol = "temperature.value"
                    THEN Fahrenheit(row["temperature.value"], row["temperature.unitCode"])
                    ELSE Fahrenheit(row["dewpoint.value"], row["dewpoint.unitCode"])

(***************************************************************************)
(* Claims about parse_windspeed.                                           *)
(***************************************************************************)
WindDone == pc = "done" /\ op = "parse_windspeed"

HasWindToken(s) == Contains(S_MPH, s) \/ Contains(KMH, s) \/ Contains(KMPH, s)

(* C6: for every integer n >= 0, parse_windspeed of "<n> mph", "<n> kmh"   *)
(* and "<n> kmph" returns windSpeedInt equal to the decimal string of n    *)
(* unchanged, with windSpeedUnit "mph" for the mph form and                *)
(* "wmoUnit:km_h-1" for the kmh and the kmph form.                         *)
C6_NumericPrefixAndUnit ==
    WindDone =>
        \A n \in 0..MaxWind :
            /\ args.speeds = DecStr(n) \o S_MPH
                => result = WindSeries(DecStr(n), "mph")
            /\ args.speeds = DecStr(n) \o S_KMH
                => result = WindSeries(DecStr(n), "wmoUnit:km_h-1")
            /\ args.speeds = DecStr(n) \o S_KMPH
                => result = WindSeries(DecStr(n), "wmoUnit:km_h-1")

C6_Witness ==
    /\ WindDone
    /\ args.speeds = DecStr(10) \o S_KMPH
    /\ result = WindSeries(<<"1", "0">>, "wmoUnit:km_h-1")

(* C7 as stated: an accepted string with a kmh or kmph token (and no       *)
(* " mph") gets the unit label "km/h (WMO)", one with " mph" gets "mph".   *)
C7_Original ==
    (WindDone /\ ~Failed(result)) =>
        IF Contains(S_MPH, args.speeds)
        THEN result.windSpeedUnit = "mph"
        ELSE result.windSpeedUnit = "km/h (WMO)"

(* C7 amended: parse_windspeed maps both the "kmh" and the "kmph" unit     *)
(* token to the unit label "wmoUnit:km_h-1", and the " mph" token, which   *)
(* is tested first, to "mph".                                              *)
C7_UnitLabel ==
    (WindDone /\ ~Failed(result)) =>
        IF Contains(S_MPH, args.speeds)
        THEN result.windSpeedUnit = "mph"
        ELSE /\ Contains(KMH, args.speeds) \/ Contains(KMPH, args.speeds)
             /\ result.windSpeedUnit = "wmoUnit:km_h-1"

C7_Witness ==
    /\ WindDone
    /\ args.speeds = <<"1", "k", "m", "p", "h">>
    /\ ~Failed(result)
    /\ result.windSpeedUnit = "wmoUnit:km_h-1"

(* C8: parse_windspeed raises ValueError, and returns nothing, exactly for *)
(* the strings that contain none of " mph", "kmh", "kmph"; in particular   *)
(* for "10", "0", "10mph", "10 kt" and the empty string.                   *)
C8_InvalidFormat ==
    WindDone =>
        /\ Failed(result) <=> ~HasWindToken(args.speeds)
        /\ Failed(result) => result.exc = "ValueError"
        /\ args.speeds \in {<<"1", "0">>, <<"0">>, <<"1", "0", "m", "p", "h">>,
                            <<"1", "0", " ", "k", "t">>, <<>>}
            => Failed(result)

C8_Witness ==
    /\ WindDone
    /\ args.speeds = <<"1", "0", "m", "p", "h">>
    /\ Failed(result)
    /\ result.exc = "ValueError"

(***************************************************************************)
(* Claims about parse_elev.                                                *)
(***************************************************************************)
ElevDone == pc = "done" /\ op = "parse_elev"

KnownElevUnits == {"m", "wmoUnit:m", "ft", "feet"}

BadElevShape ==
    \/ /\ args.elev_value.isSeries
       /\ args.unit_code.isSeries
       /\ Len(args.elev_value.items) # Len(args.unit_code.items)
    \/ args.elev_value.isSeries # args.unit_code.isSeries

BadElevUnit ==
    /\ Len(args.unit_code.items) > 0
    /\ args.unit_code.items[1] \notin KnownElevUnits

EmptyElevSeries ==
    /\ args.elev_value.isSeries
    /\ args.unit_code.isSeries
    /\ Len(args.elev_value.items) = 0
    /\ Len(args.unit_code.items) = 0

(* C9: parse_elev(v, u) returns feet = v * 3.28084 for u in {"m",          *)
(* "wmoUnit:m"} and feet = v for u in {"ft", "feet"}, and the display      *)
(* string is that feet value rounded to the nearest integer followed by    *)
(* " feet"; parse_elev(1000.0, "m") is (3280.84, "3281 feet").             *)
C9_MetresToFeet ==
    (ElevDone /\ ~Failed(result)) =>
        LET v == args.elev_value.items[1]
            u == args.unit_code.items[1]
            feet == IF u \in {"m", "wmoUnit:m"} THEN 328084 * v ELSE FeetScale * v
        IN  /\ result.elev_ft = feet
            /\ result.elev_str = FormatFeet(feet)
            /\ (v = 1000 /\ u = "m") =>
                    /\ result.elev_ft = 328084000
                    /\ result.elev_str = <<"3", "2", "8", "1", " ", "f", "e", "e", "t">>

(* C10 as stated: parse_elev fails exactly when the unit code used is not  *)
(* one of "m", "wmoUnit:m", "ft", "feet", or both inputs are series of     *)
(* different lengths, or exactly one input is a series.                    *)
C10_Original ==
    ElevDone => (Failed(result) <=> (BadElevShape \/ BadElevUnit))

(* C10 amended: parse_elev fails with an error and returns no value in     *)
(* each of these cases: the unit code used is not one of "m", "wmoUnit:m", *)
(* "ft", "feet"; both inputs are series of different lengths; exactly one  *)
(* input is a series; both inputs are empty series.  In every other case   *)
(* it returns a (feet, display) pair.                                      *)
C10_ElevErrors ==
    ElevDone =>
        (Failed(result) <=> (BadElevShape \/ BadElevUnit \/ EmptyElevSeries))

C10_Witness ==
    /\ ElevDone
    /\ EmptyElevSeries
    /\ Failed(result)

(***************************************************************************)
(* Claims about the bucket keys.                                           *)
(***************************************************************************)
(* k is the multiple of w minutes since the UTC epoch at or below u.       *)
IsUtcFloor(k, u, w) ==
    /\ k.off = 0
    /\ k.wall % w = 0
    /\ k.wall <= u
    /\ u < k.wall + w

(* C13: in every row make_obs_df returns, timestamp is a UTC instant, date *)
(* is it floored to the UTC day, datehour to the hour, date_nearest6 to    *)
(* the 6-hour and date_nearest12 to the 12-hour UTC boundary, and          *)
(* datehour_local is the instant of datehour at the Location's offset;     *)
(* each key is <= timestamp and less than one bucket width below it.       *)
C13_ObsBucketKeys ==
    (ObsDone /\ Returned) =>
        \A i \in DOMAIN result.rows :
            LET row == result.rows[i]
                u == Instant(row["timestamp"])
            IN  /\ row["timestamp"].off = 0
                /\ IsUtcFloor(row["date"], u, 1440)
                /\ IsUtcFloor(row["datehour"], u, 60)
                /\ IsUtcFloor(row["date_nearest6"], u, 360)
                /\ IsUtcFloor(row["date_nearest12"], u, 720)
                /\ Instant(row["datehour_local"]) = Instant(row["datehour"])
                /\ row["datehour_local"].off = args.loc.utcoffset

C13_Witness ==
    /\ ObsDone
    /\ Returned
    /\ \E i \in DOMAIN result.rows :
           /\ args.obs[i]["timestamp"] = [ok |-> TRUE, wall |-> 700, off |-> -480]
           /\ result.rows[i]["timestamp"] = [wall |-> 1180, off |-> 0]
           /\ result.rows[i]["date"] = [wall |-> 0, off |-> 0]
           /\ result.rows[i]["datehour"] = [wall |-> 1140, off |-> 0]
           /\ result.rows[i]["date_nearest6"] = [wall |-> 1080, off |-> 0]
           /\ result.rows[i]["date_nearest12"] = [wall |-> 720, off |-> 0]
           /\ result.rows[i]["datehour_local"] = [wall |-> 660, off |-> -480]

(* k denotes the multiple of w minutes since the UTC epoch at or below u.   *)
AtUtcFloor(k, u, w) ==
    /\ Instant(k) % w = 0
    /\ Instant(k) <= u
    /\ u < Instant(k) + w

(* C14: every row make_forecast_df returns carries the bucket keys date,   *)
(* datehour, date_nearest6 and date_nearest12, each equal to the period's  *)
(* startTime floored on the UTC timeline (day, hour, 6-hour and 12-hour    *)
(* UTC boundaries), whatever UTC offset the startTime text carries.        *)
C14_ForecastBucketKeys ==
    (ForecastDone /\ Returned) =>
        \A i \in DOMAIN result.rows :
            LET row == result.rows[i]
                u == args.fcst_json.periods[i].startTime.wall
                     - args.fcst_json.periods[i].startTime.off
            IN  /\ {"date", "datehour", "date_nearest6", "date_nearest12"}
                       \subseteq DOMAIN row
                /\ AtUtcFloor(row["date"], u, 1440)
                /\ AtUtcFloor(row["datehour"], u, 60)
                /\ AtUtcFloor(row["date_nearest6"], u, 360)
                /\ AtUtcFloor(row["date_nearest12"], u, 720)

Truncate(k, w) == [wall |-> k.wall - (k.wall % w), off |-> k.off]

(* C15: the bucket keys of make_obs_df are consistent under repeated       *)
(* truncation: each key floored again at its own granularity is itself,    *)
(* day(datehour) = date, 6h(datehour) = date_nearest6, 12h(date_nearest6)  *)
(* = date_nearest12, day(date_nearest12) = date, and two rows with equal   *)
(* datehour have equal date_nearest6, date_nearest12 and date.             *)
C15_TruncationConsistent ==
    (ObsDone /\ Returned) =>
        /\ \A i \in DOMAIN result.rows :
               LET row == result.rows[i]
               IN  /\ Truncate(row["date"], 1440) = row["date"]
                   /\ Truncate(row["datehour"], 60) = row["datehour"]
                   /\ Truncate(row["date_nearest6"], 360) = row["date_nearest6"]
                   /\ Truncate(row["date_nearest12"], 720) = row["date_nearest12"]
                   /\ Truncate(row["datehour"], 1440) = row["date"]
                   /\ Truncate(row["datehour"], 360) = row["date_nearest6"]
                   /\ Truncate(row["date_nearest6"], 720) = row["date_nearest12"]
                   /\ Truncate(row["date_nearest12"], 1440) = row["date"]
        /\ \A i, j \in DOMAIN result.rows :
               result.rows[i]["datehour"] = result.rows[j]["datehour"] =>
                   /\ result.rows[i]["date_nearest6"] = result.rows[j]["date_nearest6"]
                   /\ result.rows[i]["date_nearest12"] = result.rows[j]["date_nearest12"]
                   /\ result.rows[i]["date"] = result.rows[j]["date"]

C15_Witness ==
    /\ ObsDone
    /\ Returned
    /\ Len(result.rows) = 2
    /\ result.rows[1]["timestamp"] # result.rows[2]["timestamp"]
    /\ result.rows[1]["datehour"] = result.rows[2]["datehour"]
    /\ result.rows[1]["datehour"] # result.rows[1]["date_nearest6"]
    /\ result.rows[1]["date_nearest6"] # result.rows[1]["date_nearest12"]
    /\ result.rows[1]["date_nearest12"] # result.rows[1]["date"]

WindUnitTokens == {<<"m", "p", "h">>, KMH, KMPH}

ReduceDone == pc = "done" /\ op = "reduce_obs"

KeepKeywords == {"temperature", "dewpoint", "precipitation", "wind", "elevation"}

(* C11: when reduce_obs succeeds, the result's columns are station, then   *)
(* timestamp, then the input's columns whose name contains one of          *)
(* temperature, dewpoint, precipitation, wind, elevation and does not      *)
(* contain qualityControl, in input order; no column is duplicated, and    *)
(* the rows, their order and the kept cells are those of the input.        *)
C11_ReducedColumns ==
    (ReduceDone /\ Returned) =>
        LET in == args.obs_df
            Wanted(c) == /\ \E w \in KeepKeywords : Contains(Chars[w], Chars[c])
                         /\ ~Contains(Chars["qualityControl"], Chars[c])
        IN  /\ result.columns = <<"station", "timestamp">> \o SelectSeq(in.columns, Wanted)
            /\ Range(result.columns) =
                   {"station", "timestamp"} \cup {c \in Range(in.columns) : Wanted(c)}
            /\ Cardinality(Range(result.columns)) = Len(result.columns)
            /\ Len(result.rows) = Len(in.rows)
            /\ \A i \in DOMAIN in.rows :
                   /\ DOMAIN result.rows[i] = Range(result.columns)
                   /\ \A c \in Range(result.columns) : result.rows[i][c] = in.rows[i][c]

C11_Witness ==
    /\ ReduceDone
    /\ Returned
    /\ args.obs_df.columns =
           <<"temperature.qualityControl", "timestamp", "windChill.value", "station">>
    /\ result.columns = <<"station", "timestamp", "windChill.value">>
    /\ Len(result.rows) = 2

(* C12: reduce_obs is idempotent: applied to a table it returned, it       *)
(* succeeds and returns the same columns in the same order and the same    *)
(* rows.                                                                   *)
C12_Idempotent ==
    (ReduceDone /\ Returned) =>
        reduce_obs([columns |-> result.columns, rows |-> result.rows]) = result

C12_Witness ==
    /\ ReduceDone
    /\ Returned
    /\ Len(args.obs_df.columns) = 4
    /\ Len(result.columns) = 3
    /\ result.columns[3] = "precipitationLastHour.value"
    /\ Len(result.rows) = 2

(* C23: reduce_obs preserves column order: the columns of the output       *)
(* appear in the same relative order as in the input, station and          *)
(* timestamp included when they come after other retained columns.         *)
C23_ColumnOrderPreserved ==
    (ReduceDone /\ Returned) =>
        LET Retained(c) == c \in Range(result.columns)
        IN  result.columns = SelectSeq(args.obs_df.columns, Retained)

(***************************************************************************)
(* Claims about analyze_obs.                                               *)
(***************************************************************************)
AnalyzeDone == pc = "done" /\ op = "analyze_obs"

GroupTemps ==
    {Val(args.obs_df.rows[i][args.tcol]) :
        i \in {j \in DOMAIN args.obs_df.rows : ~IsNull(args.obs_df.rows[j][args.tcol])}}

(* C17: analyze_obs reports cycle = true exactly when the group's maximum  *)
(* tempF is strictly above 32 and its minimum strictly below 32; a group   *)
(* whose temperatures are all >= 32 or all <= 32 reports cycle = false.    *)
C17_CycleStrict ==
    (AnalyzeDone /\ Returned) =>
        /\ result.summary["cycle"] =
               ((\E t \in GroupTemps : t > 32) /\ (\E t \in GroupTemps : t < 32))
        /\ ((\A t \in GroupTemps : t >= 32) \/ (\A t \in GroupTemps : t <= 32))
               => (result.summary["cycle"] = FALSE)

C17_Witness ==
    /\ AnalyzeDone
    /\ Returned
    /\ GroupTemps = {32, 40}
    /\ result.summary["cycle"] = FALSE

InputColumnOf ==
    ("obs_precip" :> "precipitationLast3Hours.value")
    @@ ("obs_precip_iszero" :> "precipitationLast3Hours.value")
    @@ ("prob_precip" :> "probabilityOfPrecipitation.value")
    @@ ("mean_wind" :> "windSpeedInt")

(* C18: analyze_obs never fails because an optional input column           *)
(* (precipitationLast3Hours.value, probabilityOfPrecipitation.value,       *)
(* windSpeedInt) is absent: it returns a summary that contains cycle and   *)
(* omits exactly the output fields whose input column is missing.          *)
C18_OptionalColumns ==
    (AnalyzeDone /\ args.tcol \in Range(args.obs_df.columns)) =>
        /\ Returned
        /\ "cycle" \in DOMAIN result.summary
        /\ \A f \in DOMAIN InputColumnOf :
               (f \in DOMAIN result.summary)
                   <=> (InputColumnOf[f] \in Range(args.obs_df.columns))

GroupWinds == [i \in DOMAIN args.obs_df.rows |-> Val(args.obs_df.rows[i]["windSpeedInt"])]

RECURSIVE SumSeq(_)
SumSeq(q) == IF q = <<>> THEN 0 ELSE q[1] + SumSeq(Tail(q))

(* C19: for a group with a windSpeedInt column of non-negative integers,   *)
(* mean_wind is the arithmetic mean of windSpeedInt truncated to an        *)
(* integer, floor(sum / count), never rounded up.                          *)
C19_MeanWindTruncated ==
    (AnalyzeDone /\ Returned) =>
        LET m == result.summary["mean_wind"]
            n == Len(GroupWinds)
        IN  /\ m * n <= SumSeq(GroupWinds)
            /\ SumSeq(GroupWinds) < (m + 1) * n

C19_Witness ==
    /\ AnalyzeDone
    /\ Returned
    /\ GroupWinds = <<4, 3>>
    /\ result.summary["mean_wind"] = 3

(***************************************************************************)
(* Claims about Location.get_forecast.                                     *)
(***************************************************************************)
GetForecastDone == pc = "done" /\ op = "get_forecast"

Reports503 == "status" \in DOMAIN args.res /\ args.res["status"] = 503

LacksPeriods ==
    \/ "properties" \notin DOMAIN args.res
    \/ "periods" \notin DOMAIN args.res["properties"]

ReturnsForecast ==
    /\ Returned
    /\ result.value = IF args.full THEN args.res["properties"]
                                   ELSE args.res["properties"]["periods"]

(* C20 as stated: get_forecast fails for every response that reports       *)
(* status 503, or has no "properties" entry, or whose "properties" has no  *)
(* "periods" entry; for every other response it returns "properties" when  *)
(* full is true and the "periods" list when full is false.                 *)
C20_Original ==
    GetForecastDone =>
        IF Reports503 \/ LacksPeriods THEN Failed(result) ELSE ReturnsForecast

(* C20 amended: get_forecast fails for every response that reports status  *)
(* 503 together with a "detail" entry, or has no "properties" entry, or    *)
(* whose "properties" has no "periods" entry; for every other response, a  *)
(* 503 without "detail" included, it returns "properties" when full is     *)
(* true and the "periods" list when full is false.                         *)
C20_ForecastErrors ==
    GetForecastDone =>
        IF (Reports503 /\ "detail" \in DOMAIN args.res) \/ LacksPeriods
        THEN Failed(result)
        ELSE ReturnsForecast

C20_Witness ==
    /\ GetForecastDone
    /\ Reports503
    /\ "detail" \notin DOMAIN args.res
    /\ args.full
    /\ Returned
    /\ result.value = args.res["properties"]
    /\ Len(result.value["periods"]) = 1

(* C22: for every string parse_windspeed accepts, windSpeedInt is exactly   *)
(* the part of the input that precedes the matched unit token (and the     *)
(* space before it, if any) and contains no part of a unit token, both     *)
(* when kmh/kmph follows a space ("10 kmh") and when it does not           *)
(* ("10kmh", "10kmph").                                                    *)
C22_PrefixBeforeUnit ==
    (WindDone /\ Returned) =>
        LET w == result.windSpeedInt
        IN  /\ \E tok \in WindUnitTokens, sep \in {<<>>, <<" ">>} :
                   /\ Len(w \o sep \o tok) <= Len(args.speeds)
                   /\ SubSeq(args.speeds, 1, Len(w \o sep \o tok)) = w \o sep \o tok
            /\ \A tok \in WindUnitTokens : ~Contains(tok, w)

(***************************************************************************)
(* Claims about the failures of the table builders.                        *)
(***************************************************************************)
(* The four failure conditions, as properties of a finished call.          *)
InvalidFormatCase ==
    \/ WindDone /\ ~HasWindToken(args.speeds)
    \/ /\ ForecastDone
       /\ args.fcst_json.elevation.unitCode \in KnownElevUnits
       /\ Len(args.fcst_json.periods) > 0
       /\ \E i \in DOMAIN args.fcst_json.periods :
              ~HasWindToken(args.fcst_json.periods[i].windSpeed)

UnsupportedUnitCase ==
    \/ ElevDone /\ ~BadElevShape /\ ~EmptyElevSeries /\ BadElevUnit
    \/ ForecastDone /\ args.fcst_json.elevation.unitCode \notin KnownElevUnits

MalformedTimestampCase ==
    /\ ObsDone
    /\ \E i \in KeptObs : ~args.obs[i]["timestamp"].ok

MultiStationCase ==
    /\ ObsDone
    /\ \A i \in KeptObs : args.obs[i]["timestamp"].ok
    /\ \E i, j \in KeptObs : args.obs[i]["station"] # args.obs[j]["station"]

(* The error kind each condition surfaces as, on one input of each.        *)
InvalidFormatKind == parse_windspeed(<<"1", "0">>).exc

UnsupportedUnitKind == parse_elev(Scalar(1000), Scalar("invalid_unit")).exc

MalformedTimestampKind ==
    make_obs_df(CHOOSE loc \in Locations : TRUE,
                <<ObsRecord("KTRK", [ok |-> FALSE, wall |-> 0, off |-> 0],
                            Some(10), "wmoUnit:degC")>>,
                "temperature.value").exc

MultiStationKind ==
    make_obs_df(CHOOSE loc \in Locations : TRUE,
                <<ObsRecord("KTRK", [ok |-> TRUE, wall |-> 0, off |-> 0],
                            Some(10), "wmoUnit:degC"),
                  ObsRecord("KBLU", [ok |-> TRUE, wall |-> 0, off |-> 0],
                            Some(10), "wmoUnit:degC")>>,
                "temperature.value").exc

(* C21 as stated: an unparsable wind-speed text, an unrecognised elevation *)
(* unit code, an unparsable timestamp and a multi-station batch each       *)
(* surface as a different error kind: no two of them give the same kind.   *)
C21_Original ==
    /\ InvalidFormatCase =>
           /\ Failed(result)
           /\ result.exc \notin
                  {UnsupportedUnitKind, MalformedTimestampKind, MultiStationKind}
    /\ UnsupportedUnitCase =>
           /\ Failed(result)
           /\ result.exc \notin
                  {InvalidFormatKind, MalformedTimestampKind, MultiStationKind}
    /\ MalformedTimestampCase =>
           /\ Failed(result)
           /\ result.exc \notin
                  {InvalidFormatKind, UnsupportedUnitKind, MultiStationKind}
    /\ MultiStationCase =>
           /\ Failed(result)
           /\ result.exc \notin
                  {InvalidFormatKind, UnsupportedUnitKind, MalformedTimestampKind}

WindMessage == "Input does not look like a windspeed!"

ElevUnitMessage == "Cannot parse elevation unit code!"

(* C21 amended: a multi-station batch surfaces as AssertionError; an       *)
(* unparsable wind-speed text, an unrecognised elevation unit code and an  *)
(* unparsable timestamp all surface as the one error kind ValueError, and  *)
(* differ only in their messages.                                          *)
C21_ErrorKinds ==
    /\ (WindDone /\ InvalidFormatCase) => result = Raise("ValueError", WindMessage)
    /\ (ElevDone /\ UnsupportedUnitCase) => result = Raise("ValueError", ElevUnitMessage)
    /\ (ForecastDone /\ UnsupportedUnitCase) => result = Raise("ValueError", ElevUnitMessage)
    /\ (ForecastDone /\ InvalidFormatCase
           /\ \A i \in DOMAIN args.fcst_json.periods :
                  /\ args.fcst_json.periods[i].startTime.ok
                  /\ args.fcst_json.periods[i].endTime.ok)
           => result = Raise("ValueError", WindMessage)
    /\ MalformedTimestampCase =>
           /\ Failed(result)
           /\ result.exc = "ValueError"
           /\ result.msg \notin {WindMessage, ElevUnitMessage}
    /\ MultiStationCase =>
           /\ Failed(result)
           /\ result.exc = "AssertionError"

C21_Witness ==
    /\ MalformedTimestampCase
    /\ \E i, j \in KeptObs : args.obs[i]["station"] # args.obs[j]["station"]
    /\ result.exc = "ValueError"
    /\ result.exc = InvalidFormatKind
    /\ result.exc = UnsupportedUnitKind
    /\ result.exc # MultiStationKind

(***************************************************************************)
(* Claims about Location.                                                  *)
(***************************************************************************)
(* What loc.get_snotels() returns now.                                     *)
Snotels(loc) == heap[locations[loc]._snotels]

(* C24: distinct Location objects share no mutable state: after any        *)
(* constructions, with or without the snotels argument, and any mutation   *)
(* of the list get_snotels() returned for one Location, get_snotels() of   *)
(* every other Location, and of every Location constructed later, is what  *)
(* its own constructor was given (empty when the argument was omitted).    *)
C24_NoSharedState ==
    \A loc \in DOMAIN locations :
        ~locations[loc].mutated => Snotels(loc) = locations[loc].given

====
